---------------------------- MODULE Spec2Model ----------------------------
(***************************************************************************)
(* A model of az_da_cost_management:                                       *)
(*   src/pull_monthly/rg_monthly_costs.py       (the cost pull)            *)
(*   src/preparation/build_subscriptions_yaml.py (the directory export)    *)
(*                                                                         *)
(* Python strings are sequences of one-character strings, so that lower(), *)
(* strip(), float() and the GUID pattern are computed character by         *)
(* character.  Seconds are whole numbers; costs are thousandths of the     *)
(* currency unit; a rounded cost is in hundredths.                         *)
(***************************************************************************)
EXTENDS Integers, Sequences, FiniteSets, TLC

(* Python's None where a string is expected: no string has this element. *)
None == <<"None">>

(* _parse_retry_after's None, where a number of seconds is expected. *)
NoHint == -1

Min(a, b) == IF a <= b THEN a ELSE b

RECURSIVE Pow2(_)
Pow2(n) == IF n = 0 THEN 1 ELSE 2 * Pow2(n - 1)

(* All sequences over S of length at most n. *)
SeqsUpTo(S, n) == UNION {[1..k -> S] : k \in 0..n}

(***************************************************************************)
(* Characters and the string methods the two programs use.                 *)
(***************************************************************************)
Digits == {"0", "1", "2", "3", "4", "5", "6", "7", "8", "9"}

HexLetters == {"a", "b", "c", "d", "e", "f", "A", "B", "C", "D", "E", "F"}

DigitVal(c) ==
    CASE c = "0" -> 0 [] c = "1" -> 1 [] c = "2" -> 2 [] c = "3" -> 3
      [] c = "4" -> 4 [] c = "5" -> 5 [] c = "6" -> 6 [] c = "7" -> 7
      [] c = "8" -> 8 [] c = "9" -> 9

(* str.lower() on one character *)
LowerChar(c) ==
    CASE c = "A" -> "a" [] c = "B" -> "b" [] c = "C" -> "c" [] c = "D" -> "d"
      [] c = "E" -> "e" [] c = "F" -> "f" [] c = "G" -> "g" [] c = "H" -> "h"
      [] c = "I" -> "i" [] c = "J" -> "j" [] c = "K" -> "k" [] c = "L" -> "l"
      [] c = "M" -> "m" [] c = "N" -> "n" [] c = "O" -> "o" [] c = "P" -> "p"
      [] c = "Q" -> "q" [] c = "R" -> "r" [] c = "S" -> "s" [] c = "T" -> "t"
      [] c = "U" -> "u" [] c = "V" -> "v" [] c = "W" -> "w" [] c = "X" -> "x"
      [] c = "Y" -> "y" [] c = "Z" -> "z"
      [] OTHER -> c

(* str.lower() *)
Lower(s) == [i \in 1..Len(s) |-> LowerChar(s[i])]

IsSpace(c) == c = " "

RECURSIVE LStrip(_)
LStrip(s) == IF s # <<>> /\ IsSpace(Head(s)) THEN LStrip(Tail(s)) ELSE s

RECURSIVE RStrip(_)
RStrip(s) ==
    IF s # <<>> /\ IsSpace(s[Len(s)]) THEN RStrip(SubSeq(s, 1, Len(s) - 1)) ELSE s

(* str.strip() *)
Strip(s) == RStrip(LStrip(s))

(* `x or ""` on an optional string *)
OrEmpty(x) == IF x = None THEN <<>> ELSE x

(***************************************************************************)
(* rg_monthly_costs.py: the retry-after headers.                           *)
(***************************************************************************)
RETRY_AFTER_KEYS ==
    << "Retry-After",
       "x-ms-ratelimit-microsoft.costmanagement-qpu-retry-after",
       "x-ms-ratelimit-microsoft.costmanagement-entity-retry-after",
       "x-ms-ratelimit-microsoft.costmanagement-tenant-retry-after",
       "x-ms-ratelimit-microsoft.costmanagement-client-retry-after",
       "x-ms-ratelimit-microsoft.consumption-retry-after" >>

KeyNames == {RETRY_AFTER_KEYS[i] : i \in DOMAIN RETRY_AFTER_KEYS}

(* float(v) of a header value: the decimal number of a digit string, and    *)
(* the ValueError of anything else (an HTTP-date).                          *)
RECURSIVE DecimalValue(_)
DecimalValue(v) ==
    IF v = <<>> THEN 0
    ELSE 10 * DecimalValue(SubSeq(v, 1, Len(v) - 1)) + DigitVal(v[Len(v)])

IsNumeric(v) == v # None /\ v # <<>> /\ \A i \in 1..Len(v) : v[i] \in Digits

(* _parse_retry_after: the loop over RETRY_AFTER_KEYS from key number i on. *)
(* An absent or empty value goes on to the next key; the first value that  *)
(* is present decides: its number, or None when float() raises.            *)
RECURSIVE ParseFrom(_, _)
ParseFrom(headers, i) ==
    IF i > Len(RETRY_AFTER_KEYS) THEN NoHint
    ELSE LET v == headers[RETRY_AFTER_KEYS[i]]
         IN  IF v = None \/ v = <<>> THEN ParseFrom(headers, i + 1)
             ELSE IF IsNumeric(v) THEN DecimalValue(v)
             ELSE NoHint

_parse_retry_after(headers) == ParseFrom(headers, 1)

(* The values a retry-after header takes when present (RFC 9110:           *)
(* delay-seconds or an HTTP-date); None is the absent header.              *)
HttpDate == <<"W", "e", "d", ",", " ", "2", "1", " ", "O", "c", "t">>

HeaderValues == {None, <<"5">>, <<"9", "0">>, HttpDate}

(* At most this many of the six headers are present in one response. *)
MaxHeadersPresent == 2

Present(h) == {k \in KeyNames : h[k] # None}

HeaderMaps ==
    {h \in [KeyNames -> HeaderValues] : Cardinality(Present(h)) <= MaxHeadersPresent}

NoHeaders == [k \in KeyNames |-> None]

(***************************************************************************)
(* The remote call's failures.                                             *)
(***************************************************************************)
TransientStatus == {429, 503}

OtherStatus == {401, 500}

NoError == [type |-> "none", status |-> 0]

HttpResponseError(code) == [type |-> "HttpResponseError", status |-> code]

(* A failure that is no HttpResponseError (the connection broke). *)
ServiceRequestError == [type |-> "ServiceRequestError", status |-> 0]

(* The ceiling of the computed backoff, in seconds. *)
Ceiling == 60

BackoffUncapped(base, n) == base * Pow2(n)

BackoffLinear(base, n) == Min(base * (n + 1), Ceiling)

(* min(base_sleep * (2 ** attempt), 60.0) *)
Backoff(base, n) == Min(base * Pow2(n), Ceiling)

(* random.uniform(0, 0.2 * retry_after) is drawn from JitterSteps + 1      *)
(* evenly spaced points of the interval, in whole seconds.                 *)
JitterSteps == 2

Jitters(w) == {((w \div 5) * j) \div JitterSteps : j \in 0..JitterSteps}

EmptyResp == [columns |-> <<>>, rows |-> <<>>]

(***************************************************************************)
(* rg_monthly_costs.py: result sets and the cost-row fold.                 *)
(* A row is <<cost, resource group, currency>>; the columns name them.     *)
(***************************************************************************)
(* A null cost cell. *)
NullCost == -1

RG_ALIASES == {"ResourceGroupName", "ResourceGroup"}

COST_ALIASES == {"totalCost", "PreTaxCost"}

Layouts ==
    { <<"PreTaxCost", "ResourceGroupName", "Currency">>,
      <<"totalCost", "ResourceGroup", "Currency">>,
      <<"Cost", "ResourceGroupName", "Currency">>,
      <<"PreTaxCost", "ResourceGroupId", "Currency">> }

rg1 == <<"r", "g", "1">>

RG1 == <<"R", "G", "1">>

rg2 == <<"r", "g", "2">>

USD == <<"U", "S", "D">>

RowCosts == {12345, 7, NullCost}

RowGroups == {rg1, RG1, rg2, None}

CostRows == {<<c, g, USD>> : c \in RowCosts, g \in RowGroups}

(* A result set holds at most this many rows. *)
MaxRows == 2

AllResponses ==
    {[columns |-> l, rows |-> r] : l \in Layouts, r \in SeqsUpTo(CostRows, MaxRows)}

(* The result sets of the billing remote of a whole run. *)
BillingResponses ==
    { [columns |-> <<"PreTaxCost", "ResourceGroupName", "Currency">>,
       rows |-> << <<12345, rg1, USD>> >>],
      [columns |-> <<"totalCost", "ResourceGroup", "Currency">>,
       rows |-> << <<12345, RG1, USD>>, <<7, rg1, USD>> >>],
      [columns |-> <<"PreTaxCost", "ResourceGroupName", "Currency">>,
       rows |-> << <<NullCost, rg2, USD>>, <<7, None, USD>> >>],
      [columns |-> <<"PreTaxCost", "ResourceGroupName", "Currency">>,
       rows |-> <<>>],
      [columns |-> <<"Cost", "ResourceGroupName", "Currency">>,
       rows |-> << <<12345, rg1, USD>> >>] }

(* next(i for i, c in enumerate(cols) if name(c) in names); 0 is           *)
(* StopIteration.                                                         *)
IndexOf(cols, names) ==
    IF \E i \in DOMAIN cols : cols[i] \in names
    THEN CHOOSE i \in DOMAIN cols :
            /\ cols[i] \in names
            /\ \A j \in DOMAIN cols : cols[j] \in names => i <= j
    ELSE 0

(* Lines 115-118 *)
RgIdx(cols) == IndexOf(cols, RG_ALIASES)

(* Lines 119-126: the second search, for "totalCost" alone, runs when the  *)
(* first found nothing.                                                    *)
CostIdx(cols) ==
    IF IndexOf(cols, COST_ALIASES) # 0 THEN IndexOf(cols, COST_ALIASES)
    ELSE IndexOf(cols, {"totalCost"})

EmptyMap == [k \in {} |-> 0]

(* out.get(k, 0.0) *)
Get(out, k) == IF k \in DOMAIN out THEN out[k] ELSE 0

(* float(r[cost_idx] or 0.0) *)
CostOf(cell) == IF cell = NullCost THEN 0 ELSE cell

AddCostKeepCase(out, rg, cost) ==
    [k \in DOMAIN out \cup {rg} |-> IF k = rg THEN Get(out, rg) + cost ELSE out[k]]

(* Line 132: out[rg.lower()] = out.get(rg.lower(), 0.0) + cost *)
AddCost(out, rg, cost) ==
    [k \in DOMAIN out \cup {Lower(rg)} |->
        IF k = Lower(rg) THEN Get(out, Lower(rg)) + cost ELSE out[k]]

(* Lines 128-133: the loop over the rows, from row i on. *)
RECURSIVE FoldFrom(_, _, _, _, _)
FoldFrom(rows, i, rg_idx, cost_idx, out) ==
    IF i > Len(rows) THEN out
    ELSE FoldFrom(rows, i + 1, rg_idx, cost_idx,
                  AddCost(out, OrEmpty(rows[i][rg_idx]), CostOf(rows[i][cost_idx])))

SchemaOK(cols) == RgIdx(cols) # 0 /\ CostIdx(cols) # 0

Fold(r) == FoldFrom(r.rows, 1, RgIdx(r.columns), CostIdx(r.columns), EmptyMap)

RuntimeError == [type |-> "RuntimeError", status |-> 0]

(* The sums of the model's costs that lie halfway between two hundredths   *)
(* and that round() takes up (their doubles lie above the half).           *)
TiesRoundedUp == {12345, 37035}

(* round(cost, 2): thousandths to hundredths *)
Round2(m) ==
    IF m % 10 < 5 THEN m \div 10
    ELSE IF m % 10 > 5 THEN (m \div 10) + 1
    ELSE IF m \in TiesRoundedUp THEN (m \div 10) + 1
    ELSE m \div 10

(* The configuration: subscriptions, each with its requested groups. *)
Sub1 == "11111111-1111-1111-1111-111111111111"

Sub2 == "22222222-2222-2222-2222-222222222222"

Targets ==
    { [id |-> Sub1, resource_groups |-> <<rg1, rg2>>],
      [id |-> Sub1, resource_groups |-> <<rg1, RG1>>],
      [id |-> Sub2, resource_groups |-> <<RG1>>],
      [id |-> Sub2, resource_groups |-> <<>>] }

(* The configuration lists at most this many subscriptions. *)
MaxTargets == 2

(* What the remote may send: cm_client names one of these.                 *)
(*   "throttling": any header map on a 429/503, one (empty) result set     *)
(*   "billing":    no header or one hint on a 429/503, the billing results *)
(*   "results":    every result set of at most MaxRows rows                *)
OneHint == [NoHeaders EXCEPT !["Retry-After"] = <<"5">>]

RemoteHeaders(client) ==
    CASE client = "throttling" -> HeaderMaps
      [] client = "billing" -> {NoHeaders, OneHint}
      [] OTHER -> {NoHeaders}

RemoteResponses(client) ==
    CASE client = "throttling" -> {EmptyResp}
      [] client = "billing" -> BillingResponses
      [] OTHER -> AllResponses

(***************************************************************************)
(* State.                                                                  *)
(***************************************************************************)
VARIABLES
    cm_client,     \* the remote (see RemoteHeaders, RemoteResponses)
    max_retries,   \* usage_with_retry's parameters
    base_sleep,
    rstate,        \* where usage_with_retry is
    attempt,
    headers_map,   \* the headers of the response being handled
    retry_after,   \* its wait before jitter
    sleep_s,       \* its wait with jitter
    calls,         \* remote calls made by this invocation
    sleeps,        \* time.sleep calls of this invocation
    prev_wait,     \* the wait before jitter of the failure before this one
    all_computed,  \* no wait of this invocation came from a header so far
    last_error,    \* the failure caught last
    raised,        \* the error that left the function
    resp,          \* the result returned
    pc,            \* where main is
    targets,       \* cfg["subscriptions"]
    sub_i,         \* the subscription of the loop, by position
    queried,       \* the subscription ids queried, in order
    rg_costs,      \* the result of query_rg_costs_for_subscription
    fetched,       \* the rg_costs of every subscription so far, in order
    records,
    out_file,      \* the output file
    subs,          \* build_subscriptions_yaml: the directory listing
    idx_i,         \* the entry of build_subscription_index's loop, by position
    name_to_id,
    id_to_name,
    seen_names,
    dup_warnings,  \* duplicate-name warnings printed
    rows_left,     \* rows of the CSV still to aggregate
    sub_raw,       \* the row being aggregated
    rg,
    sid,           \* what resolve_subscription_id returned for it
    warned,        \* whether it printed its warning
    agg_rgs,
    agg_name,
    out_doc        \* the document written

retry_vars == <<max_retries, base_sleep, rstate, attempt, headers_map, retry_after,
                sleep_s, calls, sleeps, prev_wait, all_computed, last_error,
                raised, resp>>

main_vars == <<targets, sub_i, queried, rg_costs, fetched, records, out_file>>

export_vars == <<subs, idx_i, name_to_id, id_to_name, seen_names, dup_warnings,
                 rows_left, sub_raw, rg, sid, warned, agg_rgs, agg_name, out_doc>>

vars == <<cm_client, retry_vars, pc, main_vars, export_vars>>

(* The export's variables while the cost pull runs. *)
NoExport ==
    /\ subs = <<>>
    /\ idx_i = 0
    /\ name_to_id = <<>>
    /\ id_to_name = <<>>
    /\ seen_names = {}
    /\ dup_warnings = 0
    /\ rows_left = 0
    /\ sub_raw = None
    /\ rg = None
    /\ sid = None
    /\ warned = FALSE
    /\ agg_rgs = <<>>
    /\ agg_name = <<>>
    /\ out_doc = <<>>

NoFile == [written |-> FALSE, rows |-> <<>>]

PropagateSwallowed(at) == IF at = "query" THEN "emit" ELSE at

(* An exception leaves usage_with_retry: inside main's loop nothing        *)
(* catches it, and the run ends with it.                                   *)
Propagate(at) == IF at = "query" THEN "failed" ELSE at

(* usage_with_retry is entered: lines 45-46. *)
EnterRetry ==
    /\ rstate' = "Attempting"
    /\ attempt' = 0
    /\ headers_map' = NoHeaders
    /\ retry_after' = NoHint
    /\ sleep_s' = 0
    /\ calls' = 0
    /\ sleeps' = 0
    /\ prev_wait' = NoHint
    /\ all_computed' = TRUE
    /\ last_error' = NoError
    /\ raised' = NoError
    /\ resp' = EmptyResp

(* Line 50: the call returns a result. *)
CallSucceeds ==
    /\ UNCHANGED export_vars
    /\ rstate = "Attempting"
    /\ \E r \in RemoteResponses(cm_client) :
          resp' = r
    /\ calls' = calls + 1
    /\ rstate' = "Succeeded"
    /\ UNCHANGED <<cm_client, max_retries, base_sleep, attempt, headers_map,
                   retry_after, sleep_s, sleeps, prev_wait, all_computed,
                   last_error, raised, pc, main_vars>>

(* Lines 50-51, 65-66: a failure that is not 429/503, or no                 *)
(* HttpResponseError at all, leaves the function at once.                   *)
CallFailsNonTransient ==
    /\ UNCHANGED export_vars
    /\ rstate = "Attempting"
    /\ \E e \in {HttpResponseError(c) : c \in OtherStatus} \cup {ServiceRequestError} :
          /\ last_error' = e
          /\ raised' = e
    /\ calls' = calls + 1
    /\ rstate' = "FailedNonRetryable"
    /\ pc' = Propagate(pc)
    /\ UNCHANGED <<cm_client, max_retries, base_sleep, attempt, headers_map,
                   retry_after, sleep_s, sleeps, prev_wait, all_computed, resp,
                   main_vars>>

(* Lines 53-57: the wait before jitter of a 429/503 with headers h. *)
WaitFor(h, base, n) ==
    LET hint == _parse_retry_after(h)
    IN  IF hint = NoHint THEN Backoff(base, n) ELSE hint

(* Lines 50-60: a 429/503; the wait is computed. *)
CallFailsTransient ==
    /\ UNCHANGED export_vars
    /\ rstate = "Attempting"
    /\ \E code \in TransientStatus, h \in RemoteHeaders(cm_client) :
          /\ last_error' = HttpResponseError(code)
          /\ headers_map' = h
          /\ all_computed' = (all_computed /\ _parse_retry_after(h) = NoHint)
          /\ LET w == WaitFor(h, base_sleep, attempt)
             IN  /\ retry_after' = w
                 /\ \E jitter \in Jitters(w) : sleep_s' = w + jitter
    /\ calls' = calls + 1
    /\ rstate' = "WaitForBackoff"
    /\ UNCHANGED <<cm_client, max_retries, base_sleep, attempt, sleeps, prev_wait,
                   raised, resp, pc, main_vars>>

(* Line 63: attempt >= max_retries, on the incremented attempt. *)
ExhaustedAfterMax(n, max) == n > max

Exhausted(n, max) == n >= max

(* Lines 61-64: the sleep ends, attempt is incremented, and the error is   *)
(* raised again when attempt >= max_retries.  The except block is left:    *)
(* its response and waits are no longer looked at.                         *)
BackoffElapsed ==
    /\ UNCHANGED export_vars
    /\ rstate = "WaitForBackoff"
    /\ sleeps' = sleeps + 1
    /\ attempt' = attempt + 1
    /\ prev_wait' = retry_after
    /\ headers_map' = NoHeaders
    /\ retry_after' = NoHint
    /\ sleep_s' = 0
    /\ IF Exhausted(attempt + 1, max_retries)
         THEN /\ rstate' = "FailedExhausted"
              /\ raised' = last_error
              /\ pc' = Propagate(pc)
         ELSE /\ rstate' = "Attempting"
              /\ raised' = raised
              /\ pc' = pc
    /\ UNCHANGED <<cm_client, max_retries, base_sleep, calls, all_computed,
                   last_error, resp, main_vars>>

(***************************************************************************)
(* usage_with_retry alone, for each max_retries and base_sleep.            *)
(***************************************************************************)
(* max_retries is drawn from 1..SmallRetries and the default. *)
SmallRetries == 2

DefaultMaxRetries == 8

(* base_sleep is drawn from 1..MaxBaseSleep (the default is 2). *)
MaxBaseSleep == 2

InitRetry ==
    /\ NoExport
    /\ cm_client = "throttling"
    /\ max_retries \in (1..SmallRetries) \cup {DefaultMaxRetries}
    /\ base_sleep \in 1..MaxBaseSleep
    /\ rstate = "Attempting"
    /\ attempt = 0
    /\ headers_map = NoHeaders
    /\ retry_after = NoHint
    /\ sleep_s = 0
    /\ calls = 0
    /\ sleeps = 0
    /\ prev_wait = NoHint
    /\ all_computed = TRUE
    /\ last_error = NoError
    /\ raised = NoError
    /\ resp = EmptyResp
    /\ pc = "usage_with_retry"
    /\ targets = <<>>
    /\ sub_i = 0
    /\ queried = <<>>
    /\ rg_costs = EmptyMap
    /\ fetched = <<>>
    /\ records = <<>>
    /\ out_file = NoFile

NextRetry ==
    \/ CallSucceeds
    \/ CallFailsNonTransient
    \/ CallFailsTransient
    \/ BackoffElapsed

SpecRetry == InitRetry /\ [][NextRetry]_vars

(* The run goes on: each remote call returns or fails, each sleep ends. *)
SpecRetryFair == SpecRetry /\ WF_vars(NextRetry)

Terminal == {"Succeeded", "FailedExhausted", "FailedNonRetryable"}

IsTransient(e) == e.type = "HttpResponseError" /\ e.status \in TransientStatus

(* What each state of usage_with_retry says about the invocation so far. *)
RetryStateOK ==
    /\ rstate \in {"Attempting", "WaitForBackoff"} \cup Terminal
    /\ calls <= max_retries
    /\ rstate = "Attempting" => /\ calls = attempt
                                /\ attempt < max_retries
                                /\ raised = NoError
    /\ rstate = "WaitForBackoff" => /\ calls = attempt + 1
                                    /\ IsTransient(last_error)
                                    /\ raised = NoError
    /\ rstate = "Succeeded" => /\ calls = attempt + 1
                               /\ raised = NoError
    /\ rstate = "FailedNonRetryable" => /\ calls = attempt + 1
                                        /\ sleeps = attempt
                                        /\ ~IsTransient(last_error)
                                        /\ raised = last_error
    /\ rstate = "FailedExhausted" => /\ attempt >= max_retries
                                     /\ calls = attempt
                                     /\ sleeps = attempt
                                     /\ IsTransient(last_error)
                                     /\ raised = last_error

(* What each step does to the state of usage_with_retry. *)
RetryStepOK ==
    /\ rstate \notin Terminal
    /\ rstate = "Attempting" => rstate' \in {"Succeeded", "FailedNonRetryable",
                                             "WaitForBackoff"}
    /\ rstate = "WaitForBackoff" =>
          /\ attempt' = attempt + 1
          /\ calls' = calls
          /\ (rstate' = "Attempting") = (attempt' < max_retries)
          /\ (rstate' = "FailedExhausted") = (attempt' >= max_retries)

(* C1: one invocation of usage_with_retry starts in Attempting; it ends in *)
(* exactly one of Succeeded (the first successful call), FailedNonRetryable*)
(* (the first non-transient failure, raised with no wait and no further    *)
(* call) and FailedExhausted (after a transient failure and its wait the   *)
(* incremented attempt is >= max_retries, and the last error is raised);   *)
(* a further call is made exactly when the incremented attempt is below    *)
(* max_retries, so there are never more than max_retries calls; and it     *)
(* always ends.                                                            *)
C1_RetryTerminates ==
    /\ rstate = "Attempting" /\ attempt = 0 /\ calls = 0
    /\ []RetryStateOK
    /\ [][RetryStepOK]_vars
    /\ <>(rstate \in Terminal)

C1_Witness ==
    /\ rstate = "FailedExhausted"
    /\ max_retries > 1
    /\ calls = max_retries
    /\ raised = HttpResponseError(503)

NumericHints(h) == {DecimalValue(h[k]) : k \in {x \in KeyNames : IsNumeric(h[x])}}

(* C2: on a transient failure whose response carries a numeric wait hint   *)
(* in any of the retry-after headers, the wait before jitter is that hint; *)
(* only with no numeric hint it is min(base_sleep * 2^attempt, 60).        *)
C2_HintTakesPrecedence ==
    rstate = "WaitForBackoff" =>
        IF NumericHints(headers_map) # {}
        THEN retry_after \in NumericHints(headers_map)
        ELSE retry_after = Min(base_sleep * Pow2(attempt), 60)

DefaultWaits == <<2, 4, 8, 16, 32, 60, 60, 60>>

(* C4: while every failure is transient and no wait came from a hint, the  *)
(* waits before jitter never decrease and never exceed 60; with            *)
(* base_sleep = 2 and max_retries = 8 they are 2, 4, 8, 16, 32, 60, 60, 60,*)
(* one per failed attempt, the last one before exhaustion included.        *)
C4_BackoffSequence ==
    /\ (rstate = "WaitForBackoff" /\ all_computed) =>
          /\ retry_after <= 60
          /\ prev_wait # NoHint => prev_wait <= retry_after
          /\ (base_sleep = 2 /\ max_retries = 8) =>
                 /\ attempt + 1 \in DOMAIN DefaultWaits
                 /\ retry_after = DefaultWaits[attempt + 1]
    /\ (rstate = "FailedExhausted" /\ all_computed) =>
          /\ sleeps = max_retries
          /\ prev_wait = Min(base_sleep * Pow2(max_retries - 1), 60)

C4_Witness ==
    /\ rstate = "FailedExhausted"
    /\ all_computed
    /\ base_sleep = 2
    /\ max_retries = 8
    /\ sleeps = 8
    /\ prev_wait = 60

(***************************************************************************)
(* rg_monthly_costs.py: query_rg_costs_for_subscription and main.          *)
(* A record's start and end, the same two strings in every record of a     *)
(* run, are left out.                                                      *)
(***************************************************************************)
DefaultBaseSleep == 2

(* Lines 144-158: the configuration is read; without subscriptions the run *)
(* exits with status 2.                                                    *)
MainStart ==
    /\ UNCHANGED export_vars
    /\ pc = "start"
    /\ IF targets = <<>>
         THEN pc' = "exit2" /\ sub_i' = sub_i
         ELSE pc' = "loop" /\ sub_i' = 1
    /\ records' = <<>>
    /\ UNCHANGED <<cm_client, retry_vars, targets, queried, rg_costs, fetched,
                   out_file>>

(* Line 159: the loop over targets has come to its end. *)
LoopDone(i, ts) == i > Len(ts)

(* Lines 159-162, 93-110: the next subscription's query enters             *)
(* usage_with_retry, with main's max_retries and the default base_sleep.   *)
QuerySubscription ==
    /\ UNCHANGED export_vars
    /\ pc = "loop"
    /\ ~LoopDone(sub_i, targets)
    /\ EnterRetry
    /\ queried' = Append(queried, targets[sub_i].id)
    /\ pc' = "query"
    /\ UNCHANGED <<cm_client, max_retries, base_sleep, targets, sub_i, rg_costs,
                   fetched, records, out_file>>

(* Lines 111-133: the columns are located and the rows folded; a missing   *)
(* column raises RuntimeError, which nothing catches.                      *)
FoldRows ==
    /\ UNCHANGED export_vars
    /\ pc = "query"
    /\ rstate = "Succeeded"
    /\ IF SchemaOK(resp.columns)
         THEN /\ rg_costs' = Fold(resp)
              /\ fetched' = Append(fetched, Fold(resp))
              /\ raised' = raised
              /\ pc' = "emit"
         ELSE /\ raised' = RuntimeError
              /\ pc' = "failed"
              /\ UNCHANGED <<rg_costs, fetched>>
    /\ UNCHANGED <<cm_client, max_retries, base_sleep, rstate, attempt, headers_map,
                   retry_after, sleep_s, calls, sleeps, prev_wait, all_computed,
                   last_error, resp, targets, sub_i, queried, records, out_file>>

(* Line 161: [rg.lower() for rg in sub.get("resource_groups", [])] *)
Wanted(sub) == [i \in DOMAIN sub.resource_groups |-> Lower(sub.resource_groups[i])]

(* Lines 165-173: one record for each requested group, zero when the query *)
(* returned no cost for it.                                                *)
RecordsOf(sub, costs) ==
    [i \in DOMAIN Wanted(sub) |->
        [subscription_id |-> sub.id,
         resource_group |-> Wanted(sub)[i],
         total_cost |-> Round2(Get(costs, Wanted(sub)[i]))]]

(* Lines 164-174: the records of this subscription; the pacing sleep. *)
EmitRecords ==
    /\ UNCHANGED export_vars
    /\ pc = "emit"
    /\ records' = records \o RecordsOf(targets[sub_i], rg_costs)
    /\ sub_i' = sub_i + 1
    /\ pc' = "loop"
    /\ UNCHANGED <<cm_client, retry_vars, targets, queried, rg_costs, fetched,
                   out_file>>

(* Lines 176-183: the file is written. *)
WriteOutput ==
    /\ UNCHANGED export_vars
    /\ pc = "loop"
    /\ LoopDone(sub_i, targets)
    /\ out_file' = [written |-> TRUE, rows |-> records]
    /\ pc' = "done"
    /\ UNCHANGED <<cm_client, retry_vars, targets, sub_i, queried, rg_costs,
                   fetched, records>>

InitPull ==
    /\ NoExport
    /\ cm_client = "billing"
    /\ max_retries \in 1..SmallRetries
    /\ base_sleep = DefaultBaseSleep
    /\ rstate = "Idle"
    /\ attempt = 0
    /\ headers_map = NoHeaders
    /\ retry_after = NoHint
    /\ sleep_s = 0
    /\ calls = 0
    /\ sleeps = 0
    /\ prev_wait = NoHint
    /\ all_computed = TRUE
    /\ last_error = NoError
    /\ raised = NoError
    /\ resp = EmptyResp
    /\ pc = "start"
    /\ targets \in SeqsUpTo(Targets, MaxTargets)
    /\ sub_i = 0
    /\ queried = <<>>
    /\ rg_costs = EmptyMap
    /\ fetched = <<>>
    /\ records = <<>>
    /\ out_file = NoFile

NextPull ==
    \/ MainStart
    \/ QuerySubscription
    \/ CallSucceeds
    \/ CallFailsNonTransient
    \/ CallFailsTransient
    \/ BackoffElapsed
    \/ FoldRows
    \/ EmitRecords
    \/ WriteOutput

SpecPull == InitPull /\ [][NextPull]_vars

(* query_rg_costs_for_subscription after a call that succeeded, for each   *)
(* result set.                                                             *)
InitFold ==
    /\ NoExport
    /\ cm_client = "results"
    /\ max_retries = DefaultMaxRetries
    /\ base_sleep = DefaultBaseSleep
    /\ rstate = "Succeeded"
    /\ attempt = 0
    /\ headers_map = NoHeaders
    /\ retry_after = NoHint
    /\ sleep_s = 0
    /\ calls = 1
    /\ sleeps = 0
    /\ prev_wait = NoHint
    /\ all_computed = TRUE
    /\ last_error = NoError
    /\ raised = NoError
    /\ resp \in RemoteResponses(cm_client)
    /\ pc = "query"
    /\ targets = << [id |-> Sub1, resource_groups |-> <<rg1, rg2>>] >>
    /\ sub_i = 1
    /\ queried = <<Sub1>>
    /\ rg_costs = EmptyMap
    /\ fetched = <<>>
    /\ records = <<>>
    /\ out_file = NoFile

NextFold == FoldRows

SpecFold == InitFold /\ [][NextFold]_vars

(* The fields of a result row. *)
RowCost(r) == r[1]

RowGroup(r) == r[2]

(* The cost of the rows whose group is k in lower case; a null cost is 0. *)
RECURSIVE CostOfGroup(_, _)
CostOfGroup(rows, k) ==
    IF rows = <<>> THEN 0
    ELSE CostOfGroup(Tail(rows), k)
           + (IF Lower(OrEmpty(RowGroup(Head(rows)))) # k THEN 0
              ELSE IF RowCost(Head(rows)) = NullCost THEN 0
              ELSE RowCost(Head(rows)))

GroupsOf(rows) == {Lower(OrEmpty(RowGroup(rows[n]))) : n \in DOMAIN rows}

HasColumn(cols, names) == \E n \in DOMAIN cols : cols[n] \in names

(* C8, as claimed: when the run is done, for every configured subscription *)
(* and every group requested for it the output holds exactly one record of *)
(* that pair, with the queried cost of the group rounded to 2 decimals, or *)
(* 0 when the query returned no row for it; and no other record.           *)
C8_OneRecordPerPair ==
    pc = "done" =>
        /\ \A t \in DOMAIN targets : \A g \in DOMAIN targets[t].resource_groups :
              Cardinality({n \in DOMAIN out_file.rows :
                  /\ out_file.rows[n].subscription_id = targets[t].id
                  /\ out_file.rows[n].resource_group =
                        Lower(targets[t].resource_groups[g])}) = 1
        /\ \A n \in DOMAIN out_file.rows :
              \E t \in DOMAIN targets : \E g \in DOMAIN targets[t].resource_groups :
                  /\ out_file.rows[n].subscription_id = targets[t].id
                  /\ out_file.rows[n].resource_group =
                        Lower(targets[t].resource_groups[g])
                  /\ out_file.rows[n].total_cost =
                        (IF out_file.rows[n].resource_group \in DOMAIN fetched[t]
                         THEN Round2(fetched[t][out_file.rows[n].resource_group])
                         ELSE 0)

(* C9: the fold returns the mapping whose keys are the lower-cased group   *)
(* names of the rows and whose values are the sums of the costs of the     *)
(* rows of each key, a null cost counting 0; without a resource-group      *)
(* column or without a cost column it fails with the schema error instead. *)
C9_FoldSumsByLowerName ==
    /\ pc = "emit" =>
          /\ HasColumn(resp.columns, {"ResourceGroupName", "ResourceGroup"})
          /\ HasColumn(resp.columns, {"totalCost", "PreTaxCost"})
          /\ DOMAIN rg_costs = GroupsOf(resp.rows)
          /\ \A k \in DOMAIN rg_costs : rg_costs[k] = CostOfGroup(resp.rows, k)
          /\ raised = NoError
    /\ pc = "failed" =>
          /\ \/ ~HasColumn(resp.columns, {"ResourceGroupName", "ResourceGroup"})
             \/ ~HasColumn(resp.columns, {"totalCost", "PreTaxCost"})
          /\ raised = RuntimeError
          /\ rg_costs = EmptyMap

C9_Witness ==
    /\ pc = "emit"
    /\ Len(resp.rows) = 2
    /\ RowGroup(resp.rows[1]) = RG1
    /\ RowGroup(resp.rows[2]) = rg1
    /\ DOMAIN rg_costs = {rg1}
    /\ rg_costs[rg1] = 12352

(* The records the first n subscriptions request. *)
RECURSIVE Requested(_)
Requested(n) == IF n = 0 THEN 0 ELSE Requested(n - 1) + Len(targets[n].resource_groups)

FailedStates == {"FailedExhausted", "FailedNonRetryable"}

PullStateOK ==
    /\ Len(queried) <= Len(targets)
    /\ \A n \in DOMAIN queried : queried[n] = targets[n].id
    /\ Len(fetched) <= Len(queried)
    /\ Len(queried) <= Len(fetched) + 1
    /\ pc \in {"query", "emit"} => Len(queried) = sub_i
    /\ pc = "query" => Len(fetched) = sub_i - 1
    /\ out_file.written =>
          /\ pc = "done"
          /\ Len(queried) = Len(targets)
          /\ Len(fetched) = Len(targets)
          /\ raised = NoError
          /\ Len(out_file.rows) = Requested(Len(targets))
    /\ (pc # "usage_with_retry" /\ rstate \in FailedStates) => pc = "failed"
    /\ pc = "failed" =>
          /\ raised # NoError
          /\ rstate \in FailedStates \/ raised = RuntimeError
          /\ ~out_file.written
          /\ Len(fetched) = Len(queried) - 1
          /\ Len(records) = Requested(Len(fetched))

PullStepOK ==
    /\ pc # "failed"
    /\ ~out_file.written
    /\ queried' # queried => /\ pc = "loop"
                             /\ Len(fetched) = Len(queried)

(* C10: subscriptions are queried one at a time in configuration order,    *)
(* each after the queries before it have succeeded; the output is written  *)
(* only after every query has succeeded; a query that ends in              *)
(* FailedExhausted, FailedNonRetryable or the schema error ends the run    *)
(* with that error: no later subscription is queried, nothing is written   *)
(* and no record stands in for the failed subscription.                    *)
C10_FailureStopsRun == []PullStateOK /\ [][PullStepOK]_vars

C10_Witness ==
    /\ pc = "failed"
    /\ Len(targets) = 2
    /\ sub_i = 2
    /\ rstate = "FailedExhausted"
    /\ records # <<>>
    /\ ~out_file.written

(***************************************************************************)
(* build_subscriptions_yaml.py                                             *)
(***************************************************************************)
IsHexLowerOnly(c) == c \in Digits \cup {"a", "b", "c", "d", "e", "f"}

(* [0-9a-fA-F] *)
IsHex(c) == c \in Digits \cup HexLetters

(* The lengths of the groups of GUID_RE, which hyphens separate. *)
GUID_GROUPS == <<8, 4, 4, 4, 12>>

(* `$`: the end of the string, or just before its final newline. *)
AtEnd(rest) == rest = <<>> \/ rest = <<"\n">>

(* GUID_RE.match: the groups from number g on against s. *)
RECURSIVE MatchGroups(_, _)
MatchGroups(s, g) ==
    LET n == GUID_GROUPS[g]
    IN  /\ Len(s) >= n
        /\ \A k \in 1..n : IsHex(s[k])
        /\ IF g = Len(GUID_GROUPS)
             THEN AtEnd(SubSeq(s, n + 1, Len(s)))
             ELSE /\ Len(s) > n
                  /\ s[n + 1] = "-"
                  /\ MatchGroups(SubSeq(s, n + 2, Len(s)), g + 1)

GUID_RE(s) == MatchGroups(s, 1)

(* dict.get(k), None when k is no key *)
GetOrNone(d, k) == IF k \in DOMAIN d THEN d[k] ELSE None

(* d[k] = v *)
Put(d, k, v) == [x \in DOMAIN d \cup {k} |-> IF x = k THEN v ELSE d[x]]

(* d.setdefault(k, v) *)
SetDefault(d, k, v) == IF k \in DOMAIN d THEN d ELSE Put(d, k, v)

IndexKeyCaseSensitive(display) == display

(* Line 102: key = display.lower() *)
IndexKey(display) == Lower(display)

(* Lines 109-110: if key not in name_to_id: name_to_id[key] = sid *)
IndexName(n2i, key, id) == IF key \notin DOMAIN n2i THEN Put(n2i, key, id) ELSE n2i

(* Lines 121-134: what resolve_subscription_id returns. *)
resolve_subscription_id(sub_input, n2i) ==
    IF GUID_RE(sub_input) THEN sub_input
    ELSE LET found == GetOrNone(n2i, Lower(sub_input))
         IN  IF found = None \/ found = <<>> THEN None ELSE found

(* Lines 127-133: whether it prints its warning. *)
ResolveWarns(sub_input, n2i) ==
    /\ ~GUID_RE(sub_input)
    /\ GetOrNone(n2i, Lower(sub_input)) \in {None, <<>>}

(* The code points of the characters of the model, in ascending order. *)
Ascii ==
    << " ", "-", "0", "1", "2", "3", "4", "5", "6", "7", "8", "9", "A",
       "B", "C", "D", "E", "F", "G", "H", "I", "J", "K", "L", "M", "N",
       "O", "P", "Q", "R", "S", "T", "U", "V", "W", "X", "Y", "Z", "a",
       "b", "c", "d", "e", "f", "g", "h", "i", "j", "k", "l", "m", "n",
       "o", "p", "q", "r", "s", "t", "u", "v", "w", "x", "y", "z" >>

Ord(c) == CHOOSE n \in DOMAIN Ascii : Ascii[n] = c

(* a < b on strings *)
RECURSIVE StrLess(_, _)
StrLess(a, b) ==
    IF b = <<>> THEN FALSE
    ELSE IF a = <<>> THEN TRUE
    ELSE IF Head(a) # Head(b) THEN Ord(Head(a)) < Ord(Head(b))
    ELSE StrLess(Tail(a), Tail(b))

(* sorted(list(rgs)) *)
RECURSIVE Sorted(_)
Sorted(S) ==
    IF S = {} THEN <<>>
    ELSE LET m == CHOOSE x \in S : \A y \in S \ {x} : StrLess(x, y)
         IN  <<m>> \o Sorted(S \ {m})

(* sorted(ids, key=lower); the ids of the model differ in lower case. *)
RECURSIVE SortedByLower(_)
SortedByLower(S) ==
    IF S = {} THEN <<>>
    ELSE LET m == CHOOSE x \in S : \A y \in S \ {x} : StrLess(Lower(x), Lower(y))
         IN  <<m>> \o SortedByLower(S \ {m})

Rep(c, n) == [k \in 1..n |-> c]

GuidOf(c) ==
    Rep(c, 8) \o <<"-">> \o Rep(c, 4) \o <<"-">> \o Rep(c, 4) \o <<"-">>
        \o Rep(c, 4) \o <<"-">> \o Rep(c, 12)

GuidA == GuidOf("1")

GuidB == GuidOf("2")

(* A GUID of upper-case digits that no directory entry has. *)
GuidUpper == GuidOf("A")

(* One character short of a GUID. *)
ShortGuid == SubSeq(GuidOf("3"), 1, Len(GuidOf("3")) - 1)

SubA == <<"S", "u", "b", "A">>

(* The directory: subscription_id and display_name may be None, and a      *)
(* display name may come with blanks around it.                            *)
DirectoryEntries ==
    {[subscription_id |-> i, display_name |-> n] :
        i \in {None, GuidA, GuidB},
        n \in {None, SubA, <<"s", "u", "b", "a", " ">>}}

(* The directory lists at most this many subscriptions. *)
MaxSubs == 2

(* The cells of the CSV. *)
CsvSubscriptions ==
    {GuidA, GuidUpper, ShortGuid, <<" ", "S", "U", "B", "A">>, <<"O", "p", "s">>, <<" ">>}

CsvGroups == {rg1, RG1, <<" ">>}

(* The CSV holds at most this many rows with both cells filled. *)
MaxInputRows == 2

(* The cost pull's variables while the export runs. *)
NoPull ==
    /\ cm_client = "none"
    /\ max_retries = DefaultMaxRetries
    /\ base_sleep = DefaultBaseSleep
    /\ rstate = "Idle"
    /\ attempt = 0
    /\ headers_map = NoHeaders
    /\ retry_after = NoHint
    /\ sleep_s = 0
    /\ calls = 0
    /\ sleeps = 0
    /\ prev_wait = NoHint
    /\ all_computed = TRUE
    /\ last_error = NoError
    /\ raised = NoError
    /\ resp = EmptyResp
    /\ targets = <<>>
    /\ sub_i = 0
    /\ queried = <<>>
    /\ rg_costs = EmptyMap
    /\ fetched = <<>>
    /\ records = <<>>
    /\ out_file = NoFile

pull_vars == <<cm_client, retry_vars, main_vars>>

(* Lines 180-191, 86-95: the rows are read (none: exit 1), the directory   *)
(* is listed.                                                              *)
ExportStart ==
    /\ pc = "read"
    /\ IF rows_left = 0
         THEN pc' = "exit1" /\ idx_i' = idx_i
         ELSE pc' = "index" /\ idx_i' = 1
    /\ name_to_id' = <<>>
    /\ id_to_name' = <<>>
    /\ seen_names' = {}
    /\ UNCHANGED <<pull_vars, subs, dup_warnings, rows_left, sub_raw, rg, sid,
                   warned, agg_rgs, agg_name, out_doc>>

(* Lines 96-110: one entry of the listing. *)
IndexEntry ==
    /\ pc = "index"
    /\ idx_i <= Len(subs)
    /\ LET display == Strip(OrEmpty(subs[idx_i].display_name))
           id == Strip(OrEmpty(subs[idx_i].subscription_id))
           key == IndexKey(display)
       IN  IF id = <<>>
           THEN UNCHANGED <<id_to_name, seen_names, name_to_id, dup_warnings>>
           ELSE /\ id_to_name' = Put(id_to_name, id, display)
                /\ IF key \in seen_names
                     THEN /\ dup_warnings' = dup_warnings + 1
                          /\ UNCHANGED <<seen_names, name_to_id>>
                     ELSE /\ seen_names' = seen_names \cup {key}
                          /\ name_to_id' = IndexName(name_to_id, key, id)
                          /\ dup_warnings' = dup_warnings
    /\ idx_i' = idx_i + 1
    /\ UNCHANGED <<pull_vars, pc, subs, rows_left, sub_raw, rg, sid, warned,
                   agg_rgs, agg_name, out_doc>>

(* Lines 112, 193-195: the index is returned. *)
IndexDone ==
    /\ pc = "index"
    /\ idx_i > Len(subs)
    /\ pc' = "aggregate"
    /\ agg_rgs' = <<>>
    /\ agg_name' = <<>>
    /\ UNCHANGED <<pull_vars, subs, idx_i, name_to_id, id_to_name, seen_names,
                   dup_warnings, rows_left, sub_raw, rg, sid, warned, out_doc>>

(* Line 201: agg_rgs[sid].add(rg), agg_rgs a defaultdict(set) *)
AddGroup(agg, id, g) == Put(agg, id, (IF id \in DOMAIN agg THEN agg[id] ELSE {}) \cup {g})

(* Lines 204-208 *)
ChooseName(names, i2n, id, token) ==
    LET listed == GetOrNone(i2n, id)
        chosen == IF (listed = None \/ listed = <<>>) /\ ~GUID_RE(token)
                  THEN Strip(token) ELSE listed
    IN  IF chosen = None \/ chosen = <<>> THEN names ELSE SetDefault(names, id, chosen)

(* Lines 71-77, 197-208: one row of the CSV, its cells stripped and both   *)
(* filled, is resolved and aggregated.                                     *)
AggregateRow ==
    /\ pc = "aggregate"
    /\ rows_left > 0
    /\ \E c \in CsvSubscriptions, g \in CsvGroups :
          /\ Strip(c) # <<>>
          /\ Strip(g) # <<>>
          /\ sub_raw' = Strip(c)
          /\ rg' = Strip(g)
          /\ sid' = resolve_subscription_id(Strip(c), name_to_id)
          /\ warned' = ResolveWarns(Strip(c), name_to_id)
          /\ IF resolve_subscription_id(Strip(c), name_to_id) = None
               THEN UNCHANGED <<agg_rgs, agg_name>>
               ELSE /\ agg_rgs' = AddGroup(agg_rgs,
                                     resolve_subscription_id(Strip(c), name_to_id),
                                     Strip(g))
                    /\ agg_name' = ChooseName(agg_name, id_to_name,
                                     resolve_subscription_id(Strip(c), name_to_id),
                                     Strip(c))
    /\ rows_left' = rows_left - 1
    /\ UNCHANGED <<pull_vars, pc, subs, idx_i, name_to_id, id_to_name, seen_names,
                   dup_warnings, out_doc>>

(* Lines 215-221 *)
Shape(agg, names, i2n) ==
    LET ids == SortedByLower(DOMAIN agg)
    IN  [n \in DOMAIN ids |->
            [id |-> ids[n],
             name |-> IF ids[n] \in DOMAIN names THEN names[ids[n]]
                      ELSE IF ids[n] \in DOMAIN i2n THEN i2n[ids[n]]
                      ELSE <<>>,
             resource_groups |-> Sorted(agg[ids[n]])]]

(* Lines 210-230: nothing resolved: exit 1; else the document is written. *)
WriteYaml ==
    /\ pc = "aggregate"
    /\ rows_left = 0
    /\ IF DOMAIN agg_rgs = {}
         THEN pc' = "exit1" /\ out_doc' = out_doc
         ELSE pc' = "written" /\ out_doc' = Shape(agg_rgs, agg_name, id_to_name)
    /\ UNCHANGED <<pull_vars, subs, idx_i, name_to_id, id_to_name, seen_names,
                   dup_warnings, rows_left, sub_raw, rg, sid, warned, agg_rgs,
                   agg_name>>

InitExport ==
    /\ NoPull
    /\ pc = "read"
    /\ subs \in SeqsUpTo(DirectoryEntries, MaxSubs)
    /\ rows_left \in 0..MaxInputRows
    /\ idx_i = 0
    /\ name_to_id = <<>>
    /\ id_to_name = <<>>
    /\ seen_names = {}
    /\ dup_warnings = 0
    /\ sub_raw = None
    /\ rg = None
    /\ sid = None
    /\ warned = FALSE
    /\ agg_rgs = <<>>
    /\ agg_name = <<>>
    /\ out_doc = <<>>

NextExport ==
    \/ ExportStart
    \/ IndexEntry
    \/ IndexDone
    \/ AggregateRow
    \/ WriteYaml

SpecExport == InitExport /\ [][NextExport]_vars

(* A directory entry's id and the key of its name, as the index sees them. *)
IdOf(e) == Strip(OrEmpty(e.subscription_id))

KeyOf(e) == Lower(Strip(OrEmpty(e.display_name)))

(* The entries with an id among those the loop has been through. *)
Indexed == {n \in 1..(IF idx_i = 0 THEN 0 ELSE idx_i - 1) : IdOf(subs[n]) # <<>>}

IndexStateOK ==
    /\ DOMAIN name_to_id = {KeyOf(subs[n]) : n \in Indexed}
    /\ \A k \in DOMAIN name_to_id :
          \E n \in Indexed :
              /\ KeyOf(subs[n]) = k
              /\ \A m \in Indexed : KeyOf(subs[m]) = k => n <= m
              /\ name_to_id[k] = IdOf(subs[n])
    /\ dup_warnings =
          Cardinality({n \in Indexed :
              \E m \in Indexed : m < n /\ KeyOf(subs[m]) = KeyOf(subs[n])})
    /\ DOMAIN id_to_name = {IdOf(subs[n]) : n \in Indexed}

IndexStepOK ==
    /\ \A k \in DOMAIN name_to_id :
          k \in DOMAIN name_to_id' /\ name_to_id'[k] = name_to_id[k]
    /\ (/\ pc = "index"
        /\ idx_i <= Len(subs)
        /\ IdOf(subs[idx_i]) # <<>>
        /\ KeyOf(subs[idx_i]) \in DOMAIN name_to_id) =>
          /\ dup_warnings' = dup_warnings + 1
          /\ name_to_id' = name_to_id
          /\ IdOf(subs[idx_i]) \in DOMAIN id_to_name'
          /\ pc' = "index"

(* C5: while build_subscription_index goes through the entries, no key of  *)
(* name_to_id is ever given another id; name_to_id maps each lower-cased   *)
(* display name to the id of the first entry with an id that has the name; *)
(* each later entry whose key is there already causes one duplicate-name   *)
(* warning and changes nothing in name_to_id; every entry with an id is in *)
(* id_to_name.  Names and ids are taken stripped, as the loop takes them.  *)
C5_FirstNameWins == []IndexStateOK /\ [][IndexStepOK]_vars

C5_Witness ==
    /\ pc = "aggregate"
    /\ subs = << [subscription_id |-> GuidA, display_name |-> SubA],
                 [subscription_id |-> GuidB, display_name |-> SubA] >>
    /\ name_to_id[Lower(SubA)] = GuidA
    /\ dup_warnings = 1
    /\ DOMAIN id_to_name = {GuidA, GuidB}

(* The 8-4-4-4-12 shape, position by position. *)
HasGuidShape(t) ==
    /\ Len(t) = 36
    /\ \A n \in 1..36 :
          IF n \in {9, 14, 19, 24} THEN t[n] = "-"
          ELSE t[n] \in {"0", "1", "2", "3", "4", "5", "6", "7", "8", "9",
                         "a", "b", "c", "d", "e", "f",
                         "A", "B", "C", "D", "E", "F"}

ResolveStateOK ==
    sub_raw # None =>
        IF HasGuidShape(sub_raw) THEN sid = sub_raw /\ ~warned
        ELSE IF Lower(sub_raw) \in DOMAIN name_to_id
        THEN sid = name_to_id[Lower(sub_raw)] /\ ~warned
        ELSE sid = None /\ warned

ResolveStepOK ==
    pc = "aggregate" => name_to_id' = name_to_id /\ id_to_name' = id_to_name

(* C6: resolve_subscription_id returns a token of the GUID shape as it is, *)
(* with no warning, in the index or not; any other token gives             *)
(* name_to_id[lower(token)] when that key exists, and not-found with a     *)
(* warning when it does not; the index is left as it was.                  *)
C6_ResolveToken == []ResolveStateOK /\ [][ResolveStepOK]_vars

C6_Witness ==
    /\ sub_raw = GuidUpper
    /\ sid = GuidUpper
    /\ ~warned
    /\ GuidUpper \notin DOMAIN id_to_name
    /\ DOMAIN name_to_id # {}

(* C7, as claimed: in the document written, group names of one             *)
(* subscription that differ only in letter case are one element.           *)
C7_GroupsFoldedByCase ==
    pc = "written" =>
        \A n \in DOMAIN out_doc :
            \A a, b \in DOMAIN out_doc[n].resource_groups :
                Lower(out_doc[n].resource_groups[a]) = Lower(out_doc[n].resource_groups[b])
                    => a = b

=============================================================================
